---- MODULE Spec2Model ----
(***************************************************************************)
(* Upload service (express + multer): POST /upload, GET /uploads/:filename *)
(* and POST /delete over one uploads directory, with the size formatter,   *)
(* the storage namer and the type/size validator they share.               *)
(*                                                                         *)
(* Encodings.  A byte count is a JavaScript number; it is written here as  *)
(* its base-1024 digits, least significant first (TLC integers are 32 bits *)
(* wide and 1024^4 does not fit).  A file name is the sequence of its      *)
(* characters, a media type the pair <<type, subtype>>, a request filename *)
(* the sequence of its "/"-separated segments, a path on disk the sequence *)
(* of its directory entries from the filesystem root.                      *)
(***************************************************************************)
EXTENDS Integers, Sequences, FiniteSets, TLC

VARIABLES now, disk, reqs, last, ledger, issued, told, fmtIn, fmtOut

vars == <<now, disk, reqs, last, ledger, issued, told, fmtIn, fmtOut>>

(***************************************************************************)
(* Bounds of the model.                                                    *)
(***************************************************************************)
\* Number of base-1024 digits of a byte count given to formatFileSize.
MaxLimbs == 5
\* Date.now() takes the values 0..MaxClock.
MaxClock == 1
\* Math.round(Math.random() * 1E9) takes the values 0..MaxRnd.
MaxRnd == 1
\* Upload requests served in one run.
MaxUploads == 2
\* Distinct contents per file size.
MaxFill == 1
\* File parts received in one run, over all upload requests.
MaxParts == 2

(***************************************************************************)
(* Arithmetic on byte counts (base-k digit sequences).                     *)
(***************************************************************************)
k == 1024

sizes == <<"Bytes", "KB", "MB", "GB">>

RECURSIVE ToLimbs(_, _)
\* The n digits of the natural number v, least significant first.
ToLimbs(v, n) == IF n = 0 THEN <<>> ELSE <<v % k>> \o ToLimbs(v \div k, n - 1)

RECURSIVE MulCarry(_, _, _)
\* b * m + c, for a small multiplier m and carry c; one digit longer than b.
MulCarry(b, m, c) ==
    IF b = <<>> THEN <<c>>
    ELSE LET t == b[1] * m + c
         IN  <<t % k>> \o MulCarry(Tail(b), m, t \div k)

\* The digit sequence of d * k^i, over n digits (d may exceed k).
Shifted(d, i, n) == MulCarry([j \in 1..(n - 1) |-> IF j = i + 1 THEN 1 ELSE 0], d, 0)

RECURSIVE LimbsLeq(_, _)
\* a <= b for digit sequences of equal length.
LimbsLeq(a, b) ==
    IF a = <<>> THEN TRUE
    ELSE LET n == Len(a)
         IN  IF a[n] # b[n] THEN a[n] < b[n]
             ELSE LimbsLeq(SubSeq(a, 1, n - 1), SubSeq(b, 1, n - 1))

IsZero(b) == \A j \in DOMAIN b : b[j] = 0

\* Math.floor(Math.log(bytes) / Math.log(k)): the largest i with k^i <= bytes.
LogK(b) == (CHOOSE j \in DOMAIN b : b[j] # 0 /\ \A h \in DOMAIN b : h > j => b[h] = 0) - 1

\* Mutant of toFixed2: the hundredths cut off instead of rounded.
toFixed2Trunc(b, i) ==
    LET y == MulCarry(b, 100, 0)
    IN  y[i + 1] + (IF i + 2 \in DOMAIN y THEN k * y[i + 2] ELSE 0)

\* (bytes / Math.pow(k, i)).toFixed(2), as the number of hundredths it denotes:
\* the integer n with n / 100 nearest to bytes / k^i, the larger of two such.
\* Division by a power of two is exact on doubles, so this is
\* floor((200 * bytes / k^i + 1) / 2).
toFixed2(b, i) ==
    LET y == MulCarry(b, 200, 0)
        q == y[i + 1] + (IF i + 2 \in DOMAIN y THEN k * y[i + 2] ELSE 0)
    IN  (q + 1) \div 2

\* parseFloat(s) + '': Number::toString of a value with at most two decimals
\* prints no trailing zero and no bare decimal point.
NumberToString(h) ==
    LET whole == h \div 100
        cents == h % 100
    IN  IF cents = 0 THEN ToString(whole)
        ELSE IF cents % 10 = 0 THEN ToString(whole) \o "." \o ToString(cents \div 10)
        ELSE ToString(whole) \o "." \o ToString(cents \div 10) \o ToString(cents % 10)

\* sizes[i] of a JavaScript array: an index past the end reads undefined, which
\* string concatenation prints as "undefined".
SizeName(i) == IF i + 1 \in DOMAIN sizes THEN sizes[i + 1] ELSE "undefined"

formatFileSize(b) ==
    IF IsZero(b) THEN "0 Bytes"
    ELSE LET i == LogK(b)
         IN  NumberToString(toFixed2(b, i)) \o " " \o SizeName(i)

(***************************************************************************)
(* Strings of the request: file names and media types.                     *)
(***************************************************************************)
UpperCase == <<"A", "B", "C", "D", "E", "F", "G", "H", "I", "J", "K", "L", "M",
               "N", "O", "P", "Q", "R", "S", "T", "U", "V", "W", "X", "Y", "Z">>

LowerCase == <<"a", "b", "c", "d", "e", "f", "g", "h", "i", "j", "k", "l", "m",
               "n", "o", "p", "q", "r", "s", "t", "u", "v", "w", "x", "y", "z">>

\* String.prototype.toLowerCase, character by character.
toLowerCase(s) ==
    [j \in DOMAIN s |->
        IF \E u \in DOMAIN UpperCase : UpperCase[u] = s[j]
        THEN LowerCase[CHOOSE u \in DOMAIN UpperCase : UpperCase[u] = s[j]]
        ELSE s[j]]

\* String.prototype.endsWith.
endsWith(s, suffix) ==
    /\ Len(s) >= Len(suffix)
    /\ SubSeq(s, Len(s) - Len(suffix) + 1, Len(s)) = suffix

\* path.extname of a name without directory part: from the last "." to the end,
\* empty when there is no "." or the only "." is the first character.
extname(s) ==
    LET dots == {j \in DOMAIN s : s[j] = "."}
    IN  IF dots = {} THEN <<>>
        ELSE LET d == CHOOSE j \in dots : \A h \in dots : h <= j
             IN  IF d = 1 THEN <<>> ELSE SubSeq(s, d, Len(s))

RECURSIVE Str(_)
\* The string a character sequence spells.
Str(s) == IF s = <<>> THEN "" ELSE s[1] \o Str(Tail(s))

ApkSuffix == <<".", "a", "p", "k">>

ApkType == <<"application", "vnd.android.package-archive">>

allowedImageTypes ==
    {<<"image", "jpeg">>, <<"image", "png">>, <<"image", "gif">>, <<"image", "webp">>}

allowedVideoTypes ==
    {<<"video", "mp4">>, <<"video", "mpeg">>, <<"video", "quicktime">>,
     <<"video", "x-msvideo">>}

allowedDocumentTypes == {<<"application", "pdf">>}

isAPKFile(file) ==
    \/ file.mimetype = ApkType
    \/ endsWith(toLowerCase(file.originalname), ApkSuffix)

\* Mutant of fileFilter: every type passes.
fileFilterAcceptAll(file) == TRUE

\* TRUE: cb(null, true); FALSE: cb(new Error('Invalid file type. ...'), false).
fileFilter(file) ==
    \/ isAPKFile(file)
    \/ file.mimetype \in allowedImageTypes
    \/ file.mimetype \in allowedVideoTypes
    \/ file.mimetype \in allowedDocumentTypes

InvalidTypeMessage ==
    "Invalid file type. Only JPEG, PNG, GIF, WEBP, MP4, MPEG, MOV, AVI, PDF, and APK files are allowed."

\* Mutant of filename: the random suffix left out.
filenameNoRandom(file, ts, rnd) ==
    file.fieldname \o "-" \o ToString(ts) \o Str(extname(file.originalname))

\* storage.filename: `${fieldname}-${Date.now()}-${Math.round(Math.random() * 1E9)}${extname}`.
filename(file, ts, rnd) ==
    file.fieldname \o "-" \o ToString(ts) \o "-" \o ToString(rnd)
        \o Str(extname(file.originalname))

(***************************************************************************)
(* Paths and the filesystem.                                               *)
(***************************************************************************)
dirname == <<"srv">>

RECURSIVE normalize(_, _)
\* path.join's normalisation of the segments segs appended to the absolute
\* path base: "" and "." are dropped, ".." removes the last entry (and stays
\* at the root).
normalize(base, segs) ==
    IF segs = <<>> THEN base
    ELSE LET s == segs[1]
         IN  IF s = "" \/ s = "." THEN normalize(base, Tail(segs))
             ELSE IF s = ".."
                  THEN normalize(IF base = <<>> THEN <<>>
                                 ELSE SubSeq(base, 1, Len(base) - 1), Tail(segs))
             ELSE normalize(Append(base, s), Tail(segs))

\* path.join(__dirname, 'uploads')
uploadPath == normalize(dirname, <<"uploads">>)

\* path.join(__dirname, 'uploads', filename)
filePath(name) == normalize(dirname, <<"uploads">> \o name)

\* The directories of the machine; every other path of disk is a regular file.
Dirs == {<<>>, <<"srv">>, <<"srv", "uploads">>, <<"etc">>}

\* Files outside the Store root that exist when the service starts.
OutsideFiles == {<<"etc", "passwd">>}

OutsideData(p) == [size |-> Len(p), fill |-> 0]

existsSync(d, p) == p \in DOMAIN d \/ p \in Dirs

\* The paths of the Store: the regular files directly inside uploadPath.
Store(d) == {p \in DOMAIN d : Len(p) = Len(uploadPath) + 1 /\ SubSeq(p, 1, Len(uploadPath)) = uploadPath}

StoreNames(d) == {p[Len(p)] : p \in Store(d)}

Remove(d, ps) == [p \in DOMAIN d \ ps |-> d[p]]

Put(d, p, data) == [q \in DOMAIN d \cup {p} |-> IF q = p THEN data ELSE d[q]]

(***************************************************************************)
(* Requests and responses.                                                 *)
(*                                                                         *)
(* reqs[r] is upload request r while the service works on it: its phase    *)
(* and req.files.  last is the step the service took last and, when that   *)
(* step answered a request, the request and its response.  ledger, issued  *)
(* and told are history: the names answered with 201 and not deleted       *)
(* since, with the bytes uploaded under them; how often each name was      *)
(* given out; and the names clients have read in a 201 response.           *)
(***************************************************************************)
Requests == 1..MaxUploads

Response(status, body) == [status |-> status, body |-> body]

NoResponse == Response(0, [success |-> FALSE])

Failure(status, message) == Response(status, [success |-> FALSE, message |-> message])

\* A request that has not arrived, and one that is over.
IdleRequest == [phase |-> "idle", files |-> <<>>, sent |-> <<>>, nparts |-> 0]

OverRequest(n) == [phase |-> "over", files |-> <<>>, sent |-> <<>>, nparts |-> n]

Step(op, arg, resp) == [op |-> op, arg |-> arg, resp |-> resp]

\* The node process is gone once a callback has thrown outside every try block.
Up == \A r \in Requests : reqs[r].phase # "crashed"

RECURSIVE PartsSeen(_, _)
\* The file parts received by requests 1..n.
PartsSeen(rs, n) == IF n = 0 THEN 0 ELSE rs[n].nparts + PartsSeen(rs, n - 1)

\* A byte count of an upload, as formatFileSize reads it.
Bytes(n) == ToLimbs(n, 4)

Extend(f, key, val) == [x \in DOMAIN f \cup {key} |-> IF x = key THEN val ELSE f[x]]

(***************************************************************************)
(* The inputs of the model.                                                *)
(***************************************************************************)
PhotoJpg == <<"p", ".", "j", "p", "g">>

PhotoApk == <<"p", ".", "A", "P", "K">>

maxImageSize == 10 * 1024 * 1024

maxOtherSize == 15 * 1024 * 1024

Jpeg == <<"image", "jpeg">>

Mp4 == <<"video", "mp4">>

Pdf == <<"application", "pdf">>

\* (declared media type, original name, size) of the uploaded parts: each
\* category at its limit and one byte over it, an image named like a package,
\* a package, and a type outside the allowed lists.
FileKinds ==
    {<<Jpeg, PhotoJpg, maxImageSize>>,
     <<Jpeg, PhotoJpg, maxImageSize + 1>>,
     <<Jpeg, PhotoApk, maxImageSize + 1>>,
     <<Mp4, PhotoJpg, maxOtherSize>>,
     <<Mp4, PhotoJpg, maxOtherSize + 1>>,
     <<Pdf, PhotoJpg, maxOtherSize + 1>>,
     <<ApkType, PhotoJpg, maxOtherSize + 1>>,
     <<(<<"application", "x-msdownload">>), PhotoJpg, maxImageSize>>}

\* The file parts a multipart body may carry: under an accepted field name, or
\* under one the route does not declare.
FileParts ==
    [fieldname : {"file", "image"}, kind : FileKinds, fill : 1..MaxFill]
    \cup [fieldname : {"avatar"}, kind : {<<Jpeg, PhotoJpg, maxImageSize>>}, fill : {1}]

\* The bytes of a part.
DataOf(part) == [size |-> part.kind[3], fill |-> part.fill]

\* The file object multer hands to fileFilter and storage.filename.
FileOf(part) ==
    [fieldname |-> part.fieldname, originalname |-> part.kind[2], mimetype |-> part.kind[1]]

\* Request filenames: the names clients were given in a 201 response, a name
\* never stored and a name that leaves the uploads directory.
Filenames ==
    {<<n>> : n \in told} \cup {<<"nosuch.jpg">>, <<"..", "..", "etc", "passwd">>}

\* POST /delete bodies: a filename, or none (an absent and an empty filename
\* are both falsy).
NoFilename == <<>>

(***************************************************************************)
(* POST /upload: multer's upload(req, res, cb), validateFileSize and the   *)
(* route handler.                                                          *)
(***************************************************************************)
\* multer's field filter for .fields([{file, maxCount 1}, {image, maxCount 1}]):
\* a part under another name, or a second part under the same name, is
\* LIMIT_UNEXPECTED_FILE.
UnexpectedField(files, part) ==
    \/ part.fieldname \notin {"file", "image"}
    \/ part.fieldname \in DOMAIN files

\* req.files?.file?.[0] || req.files?.image?.[0]
uploadedFileOf(files) == IF "file" \in DOMAIN files THEN files["file"] ELSE files["image"]


\* const limit = isImage ? maxImageSize : maxOtherSize, with
\* isImage = mimetype.startsWith('image/').
SizeLimit(file) == IF file.mimetype[1] = "image" THEN maxImageSize ELSE maxOtherSize

\* Mutant of ExceedsLimit: a file of exactly the limit is rejected.
ExceedsLimitAtEquality(file) == file.size >= SizeLimit(file)

\* (isImage && fileSize > maxImageSize) || (!isImage && fileSize > maxOtherSize)
ExceedsLimit(file) == file.size > SizeLimit(file)

SizeExceeded(file) ==
    Response(400,
        [success |-> FALSE,
         message |-> "File size (" \o formatFileSize(Bytes(file.size))
                        \o ") exceeds the limit ("
                        \o formatFileSize(Bytes(SizeLimit(file))) \o ")",
         actualSize |-> file.size,
         formattedSize |-> formatFileSize(Bytes(file.size)),
         maxSize |-> SizeLimit(file),
         formattedMaxSize |-> formatFileSize(Bytes(SizeLimit(file)))])

\* let fileType = 'image'; then video, pdf and apk each overwrite it in turn.
FileType(file) ==
    IF isAPKFile(file) THEN "apk"
    ELSE IF file.mimetype = <<"application", "pdf">> THEN "pdf"
    ELSE IF file.mimetype[1] = "video" THEN "video"
    ELSE "image"

\* fileType.charAt(0).toUpperCase() + fileType.slice(1)
Capitalized(t) ==
    CASE t = "image" -> "Image" [] t = "video" -> "Video" [] t = "pdf" -> "Pdf"
      [] t = "apk" -> "Apk"

\* The 201 response of the route handler; the URL's scheme and host are those
\* of the request and are left out of path.
Uploaded(files) ==
    LET file == uploadedFileOf(files)
    IN  Response(201,
            [success |-> TRUE,
             message |-> Capitalized(FileType(file)) \o " uploaded successfully",
             filename |-> file.filename,
             path |-> "/uploads/" \o file.filename,
             size |-> file.size,
             formattedSize |-> formatFileSize(Bytes(file.size)),
             mimetype |-> file.mimetype,
             type |-> FileType(file),
             field |-> IF "file" \in DOMAIN files THEN "file" ELSE "image"])

\* What last keeps of a request that was answered: req.files, the bytes sent
\* under each field and, when multer refused a part, that part.
Answered(r, refused) ==
    [id |-> r, files |-> reqs[r].files, sent |-> reqs[r].sent, refused |-> refused]

\* Request r can take a step: it is being received, or it is the next to
\* arrive (requests are numbered in the order of arrival).
Receiving(r) ==
    \/ reqs[r].phase = "receiving"
    \/ /\ reqs[r].phase = "idle"
       /\ \A q \in Requests : q < r => reqs[q].phase # "idle"

\* multer receives the next file part of the body.  A part it refuses ends the
\* request: multer removes the files the request has stored and passes the
\* error to validateFileSize's callback, which answers 400.  A part it accepts
\* is named by storage.filename and written to the uploads directory.
UploadPart(r, part, rnd) ==
    /\ Up
    /\ Receiving(r)
    /\ PartsSeen(reqs, MaxUploads) < MaxParts
    /\ LET file == FileOf(part)
           files == reqs[r].files
           stored == {files[f].path : f \in DOMAIN files}
           refuse(message) ==
               /\ disk' = Remove(disk, stored)
               /\ reqs' = [reqs EXCEPT ![r] = OverRequest(reqs[r].nparts + 1)]
               /\ last' = Step("refused", Answered(r, <<file>>), Failure(400, message))
               /\ UNCHANGED <<issued, told>>
           name == filename(file, now, rnd)
           info == [fieldname |-> file.fieldname,
                    originalname |-> file.originalname,
                    mimetype |-> file.mimetype,
                    filename |-> name,
                    path |-> Append(uploadPath, name),
                    size |-> DataOf(part).size]
       IN  IF UnexpectedField(files, part)
           THEN refuse("Upload error: Unexpected field")
           ELSE IF ~fileFilter(file)
           THEN refuse(InvalidTypeMessage)
           ELSE /\ disk' = Put(disk, info.path, DataOf(part))
                /\ reqs' = [reqs EXCEPT
                      ![r].phase = "receiving",
                      ![r].nparts = @ + 1,
                      ![r].files = Extend(files, file.fieldname, info),
                      ![r].sent = Extend(reqs[r].sent, file.fieldname,
                                      [data |-> DataOf(part), ts |-> now, rnd |-> rnd])]
                /\ issued' = Extend(issued, name,
                                    IF name \in DOMAIN issued THEN 2 ELSE 1)
                /\ last' = Step("part", r, NoResponse)
                /\ UNCHANGED told
    /\ UNCHANGED <<now, ledger, fmtIn, fmtOut>>

\* The body has been read without error: the rest of validateFileSize's
\* callback and, through next(), the route handler.
UploadEnd(r) ==
    /\ Up
    /\ Receiving(r)
    /\ LET files == reqs[r].files
           file == uploadedFileOf(files)
           answer(resp) ==
               /\ reqs' = [reqs EXCEPT ![r] = OverRequest(reqs[r].nparts)]
               /\ last' = Step("end", Answered(r, <<>>), resp)
           accept ==
               /\ answer(Uploaded(files))
               /\ ledger' = Extend(ledger, file.filename, reqs[r].sent[file.fieldname].data)
               /\ told' = told \cup {file.filename}
               /\ UNCHANGED disk
       IN  IF DOMAIN files = {}
           THEN /\ answer(Failure(400, "No file uploaded"))
                /\ UNCHANGED <<disk, ledger, told>>
           ELSE IF isAPKFile(file)
           THEN accept
           ELSE IF ExceedsLimit(file)
           THEN IF file.path \in DOMAIN disk
                THEN /\ disk' = Remove(disk, {file.path})
                     /\ answer(SizeExceeded(file))
                     /\ UNCHANGED <<ledger, told>>
                ELSE \* fs.unlinkSync throws ENOENT inside multer's callback
                     /\ reqs' = [reqs EXCEPT ![r].phase = "crashed"]
                     /\ last' = Step("crash", r, NoResponse)
                     /\ UNCHANGED <<disk, ledger, told>>
           ELSE accept
    /\ UNCHANGED <<now, issued, fmtIn, fmtOut>>

(***************************************************************************)
(* GET /uploads/:filename and POST /delete.                                *)
(***************************************************************************)
\* res.sendFile(filePath): the file's bytes; a directory falls through to
\* express's own 404.
sendFile(d, p) ==
    IF p \in DOMAIN d THEN Response(200, [data |-> d[p]])
    ELSE Response(404, [success |-> FALSE])

Fetch(name) ==
    /\ Up
    /\ LET p == filePath(name)
       IN  last' = Step("fetch", name,
                        IF ~existsSync(disk, p) THEN Failure(404, "File not found")
                        ELSE sendFile(disk, p))
    /\ UNCHANGED <<now, disk, reqs, ledger, issued, told, fmtIn, fmtOut>>

Delete(name) ==
    /\ Up
    /\ IF name = NoFilename
       THEN /\ last' = Step("delete", name,
                            Failure(400, "Filename is required in request body"))
            /\ UNCHANGED <<disk, ledger>>
       ELSE LET p == filePath(name)
            IN  IF ~existsSync(disk, p)
                THEN /\ last' = Step("delete", name, Failure(404, "File not found"))
                     /\ UNCHANGED <<disk, ledger>>
                ELSE IF p \notin DOMAIN disk
                THEN \* fs.unlinkSync of a directory throws; the catch block answers
                     /\ last' = Step("delete", name, Failure(500, "Error deleting file"))
                     /\ UNCHANGED <<disk, ledger>>
                ELSE /\ disk' = Remove(disk, {p})
                     /\ ledger' = [n \in {m \in DOMAIN ledger : Append(uploadPath, m) # p}
                                      |-> ledger[n]]
                     /\ last' = Step("delete", name,
                            Response(200, [success |-> TRUE,
                                           message |-> "File deleted successfully",
                                           filename |-> name]))
    /\ UNCHANGED <<now, reqs, issued, told, fmtIn, fmtOut>>

\* A millisecond passes.
Tick ==
    /\ Up
    /\ now < MaxClock
    /\ now' = now + 1
    /\ last' = Step("tick", now + 1, NoResponse)
    /\ UNCHANGED <<disk, reqs, ledger, issued, told, fmtIn, fmtOut>>

(***************************************************************************)
(* The service.                                                            *)
(***************************************************************************)
Init ==
    /\ now = 0
    /\ disk = [p \in OutsideFiles |-> OutsideData(p)]
    /\ reqs = [r \in Requests |-> IdleRequest]
    /\ last = Step("init", 0, NoResponse)
    /\ ledger = <<>>
    /\ issued = <<>>
    /\ told = {}
    /\ fmtIn = <<>>
    /\ fmtOut = ""

Next ==
    \/ \E r \in Requests, part \in FileParts, rnd \in 0..MaxRnd : UploadPart(r, part, rnd)
    \/ \E r \in Requests : UploadEnd(r)
    \/ \E name \in Filenames : Fetch(name)
    \/ \E name \in Filenames \cup {NoFilename} : Delete(name)
    \/ Tick

Spec == Init /\ [][Next]_vars

(***************************************************************************)
(* formatFileSize on its own.                                              *)
(***************************************************************************)
FmtDigits == {0, 1, 6, 128, 512, 1023}

FmtInputs == [1..MaxLimbs -> FmtDigits]

Format ==
    /\ fmtOut = ""
    /\ fmtOut' = formatFileSize(fmtIn)
    /\ UNCHANGED <<now, disk, reqs, last, ledger, issued, told, fmtIn>>

InitFmt ==
    /\ now = 0
    /\ disk = [p \in OutsideFiles |-> OutsideData(p)]
    /\ reqs = [r \in Requests |-> IdleRequest]
    /\ last = Step("init", 0, NoResponse)
    /\ ledger = <<>>
    /\ issued = <<>>
    /\ told = {}
    /\ fmtIn \in FmtInputs
    /\ fmtOut = ""

NextFmt == Format

SpecFmt == InitFmt /\ [][NextFmt]_vars

(***************************************************************************)
(* Vocabulary of the properties.                                           *)
(***************************************************************************)
\* The step just taken answered an upload request.
AnsweredUpload == last.op \in {"end", "refused"}

\* The file of an answered upload that carried one: the one under `file`,
\* else the one under `image`.
TheFile == IF "file" \in DOMAIN last.arg.files THEN last.arg.files["file"]
           ELSE last.arg.files["image"]

\* The bytes the client sent as that file.
TheBytes == last.arg.sent[TheFile.fieldname].data

EnumeratedTypes ==
    {<<"image", "jpeg">>, <<"image", "png">>, <<"image", "gif">>, <<"image", "webp">>,
     <<"video", "mp4">>, <<"video", "mpeg">>, <<"video", "quicktime">>,
     <<"video", "x-msvideo">>, <<"application", "pdf">>}

\* Recognised as a package archive: by media type, or by the .apk suffix.
PackageArchive(file) ==
    \/ file.mimetype = <<"application", "vnd.android.package-archive">>
    \/ endsWith(toLowerCase(file.originalname), <<".", "a", "p", "k">>)

\* The category a declared media type stands for, as the response names it.
CategoryOfType(mimetype) ==
    IF mimetype[1] = "image" THEN "image"
    ELSE IF mimetype[1] = "video" THEN "video"
    ELSE "pdf"

\* 10 MiB for images, 15 MiB for videos and documents.
CategoryLimit(mimetype) == IF mimetype[1] = "image" THEN 10485760 ELSE 15728640

(***************************************************************************)
(* C1.  Every file of an answered upload that is an image over 10485760    *)
(* bytes, or a video or document over 15728640 bytes (files recognised as  *)
(* package archives set aside), has the upload answered 400 with           *)
(* actualSize the size written and maxSize the category's limit, and is    *)
(* not in the Store when the response is sent.                             *)
(***************************************************************************)
C1_Oversize(file, sent) ==
    /\ file.mimetype \in EnumeratedTypes
    /\ ~PackageArchive(file)
    /\ sent.data.size > CategoryLimit(file.mimetype)

\* C1: the statement as claimed.
C1_OversizeRejected ==
    last.op = "end" =>
        \A f \in DOMAIN last.arg.files :
            C1_Oversize(last.arg.files[f], last.arg.sent[f]) =>
                /\ last.resp.status = 400
                /\ last.resp.body.actualSize = last.arg.sent[f].data.size
                /\ last.resp.body.maxSize = CategoryLimit(last.arg.files[f].mimetype)
                /\ last.arg.files[f].path \notin DOMAIN disk

(***************************************************************************)
(* C2.  An upload answered 400 or 500 leaves none of the files it wrote in *)
(* the Store, also when it carried a file under `file` and one under       *)
(* `image`.                                                                *)
(***************************************************************************)
\* C2: the statement as claimed.
C2_FailureLeavesNoFile ==
    (AnsweredUpload /\ last.resp.status \in {400, 500}) =>
        \A f \in DOMAIN last.arg.files : last.arg.files[f].path \notin DOMAIN disk

(***************************************************************************)
(* C3.  A fetch or delete whose filename contains ".." segments ends in    *)
(* 404 or a rejected-input error, and no file outside the Store root is    *)
(* ever removed.                                                           *)
(***************************************************************************)
Escapes(name) == \E j \in DOMAIN name : name[j] = ".."

\* C3: the statement as claimed.
C3_NoTraversal ==
    /\ (last.op \in {"fetch", "delete"} /\ Escapes(last.arg))
          => last.resp.status \in {400, 403, 404}
    /\ \A p \in OutsideFiles : p \in DOMAIN disk

(***************************************************************************)
(* C4.  A file whose declared media type is an allowed image, video or PDF *)
(* type is classified by that type and held to that category's size limit, *)
(* whatever its original name.                                             *)
(***************************************************************************)
\* C4: the statement as claimed.
C4_TypeDecidesCategory ==
    (/\ last.op = "end"
     /\ DOMAIN last.arg.files # {}
     /\ TheFile.mimetype \in EnumeratedTypes
     /\ last.resp.status = 201)
        => /\ last.resp.body.type = CategoryOfType(TheFile.mimetype)
           /\ TheBytes.size <= CategoryLimit(TheFile.mimetype)

(***************************************************************************)
(* C5.  A file that is neither of an enumerated media type nor recognised  *)
(* as a package archive is never stored: the upload carrying it is         *)
(* answered 400, and none of the files of that request is in the Store     *)
(* when the response is sent.                                              *)
(***************************************************************************)
Unsupported(file) == file.mimetype \notin EnumeratedTypes /\ ~PackageArchive(file)

\* C5: no unsupported file is ever held by a request, and the upload that
\* carried one is answered 400 with none of its files left in the Store.
C5_UnsupportedRefused ==
    /\ \A r \in Requests : \A f \in DOMAIN reqs[r].files : ~Unsupported(reqs[r].files[f])
    /\ AnsweredUpload =>
          \A f \in DOMAIN last.arg.files : ~Unsupported(last.arg.files[f])
    /\ (last.op = "refused" /\ Unsupported(last.arg.refused[1])) =>
          /\ last.resp.status = 400
          /\ \A f \in DOMAIN last.arg.files : last.arg.files[f].path \notin DOMAIN disk

\* An unsupported part arrived after the request had stored a file.
C5_Witness ==
    /\ last.op = "refused"
    /\ Unsupported(last.arg.refused[1])
    /\ DOMAIN last.arg.files # {}
    /\ last.resp.status = 400

(***************************************************************************)
(* C6.  An upload whose files all have accepted types and whose file is at *)
(* or under its category's limit is answered 201 with the generated name,  *)
(* and a later fetch of that name, with no delete in between, answers 200  *)
(* with the uploaded bytes.                                                *)
(***************************************************************************)
C6_Accepted ==
    (/\ last.op = "end"
     /\ DOMAIN last.arg.files # {}
     /\ ~Unsupported(TheFile)
     /\ TheBytes.size <= CategoryLimit(TheFile.mimetype))
        => /\ last.resp.status = 201
           /\ last.resp.body.filename = TheFile.filename
           /\ last.resp.body.filename \in DOMAIN issued

\* C6: the statement as claimed.
C6_RoundTrip ==
    /\ C6_Accepted
    /\ (last.op = "fetch" /\ Len(last.arg) = 1 /\ last.arg[1] \in DOMAIN ledger)
          => last.resp = Response(200, [data |-> ledger[last.arg[1]]])

\* C6: the statement that holds, of names that were generated for one upload
\* only.
C6_RoundTripUnlessReused ==
    /\ C6_Accepted
    /\ (/\ last.op = "fetch"
        /\ Len(last.arg) = 1
        /\ last.arg[1] \in DOMAIN ledger
        /\ issued[last.arg[1]] = 1)
          => last.resp = Response(200, [data |-> ledger[last.arg[1]]])

\* An image of exactly 10485760 bytes was uploaded and has just been fetched.
C6_Witness ==
    /\ last.op = "fetch"
    /\ Len(last.arg) = 1
    /\ last.arg[1] \in DOMAIN ledger
    /\ issued[last.arg[1]] = 1
    /\ last.resp.status = 200
    /\ last.resp.body.data.size = 10485760

(***************************************************************************)
(* C7.  Two uploads in progress at once, with the same field name and the  *)
(* same original file name, hold two distinct stored names.                *)
(***************************************************************************)
\* Requests a and b are both being received and each has stored a file
\* under field f, with the same original name.
Twins(a, b, f) ==
    /\ a # b
    /\ reqs[a].phase = "receiving"
    /\ reqs[b].phase = "receiving"
    /\ f \in DOMAIN reqs[a].files
    /\ f \in DOMAIN reqs[b].files
    /\ reqs[a].files[f].originalname = reqs[b].files[f].originalname

C8_DeleteByName ==
    [][last'.op = "delete" =>
         IF last'.arg = NoFilename
         THEN last'.resp.status = 400 /\ disk' = disk
         ELSE IF ~(Len(last'.arg) = 1 /\ last'.arg[1] \in StoreNames(disk))
         THEN last'.resp.status = 404 /\ disk' = disk
         ELSE /\ last'.resp.status = 200
              /\ disk' = Remove(disk, {Append(uploadPath, last'.arg[1])})]_vars

(***************************************************************************)
(* C9.  formatFileSize(bytes) is bytes scaled by the largest power of 1024 *)
(* not exceeding it, rounded to two decimals with trailing zeros dropped,  *)
(* followed by Bytes, KB, MB or GB; formatFileSize(0) = "0 Bytes",         *)
(* formatFileSize(1024) = "1 KB", formatFileSize(1572864) = "1.5 MB".      *)
(***************************************************************************)
C9_Units == <<"Bytes", "KB", "MB", "GB">>

Pad(b, n) == b \o [j \in 1..(n - Len(b)) |-> 0]

\* 1024^i <= b < 1024^(i+1)
C9_LargestPower(b, i) ==
    LET n == Len(b) + 2
    IN  /\ LimbsLeq(Shifted(1, i, n), Pad(b, n))
        /\ ~LimbsLeq(Shifted(1, i + 1, n), Pad(b, n))

\* h / 100 is b / 1024^i rounded to two decimals (a half rounds up):
\* (2h - 1) * 1024^i <= 200 * b < (2h + 1) * 1024^i
C9_Rounded(b, i, h) ==
    LET n == Len(b) + 2
        b200 == Pad(MulCarry(b, 200, 0), n)
    IN  /\ LimbsLeq(Shifted(2 * h - 1, i, n), b200)
        /\ ~LimbsLeq(Shifted(2 * h + 1, i, n), b200)

\* h hundredths in decimal, without trailing zeros.
C9_Text(h) ==
    IF h % 100 = 0 THEN ToString(h \div 100)
    ELSE IF h % 10 = 0 THEN ToString(h \div 100) \o "." \o ToString((h % 100) \div 10)
    ELSE ToString(h \div 100) \o "." \o ToString((h % 100) \div 10) \o ToString(h % 10)

C9_Formatted(b, out) ==
    IF IsZero(b) THEN out = "0 Bytes"
    ELSE \E i \in 0..(Len(b) - 1) :
            /\ C9_LargestPower(b, i)
            /\ i + 1 \in DOMAIN C9_Units
            /\ \E h \in (100 * b[i + 1])..(100 * b[i + 1] + 100) :
                  /\ C9_Rounded(b, i, h)
                  /\ out = C9_Text(h) \o " " \o C9_Units[i + 1]

C9_Examples ==
    /\ fmtIn = ToLimbs(0, MaxLimbs) => fmtOut = "0 Bytes"
    /\ fmtIn = ToLimbs(1024, MaxLimbs) => fmtOut = "1 KB"
    /\ fmtIn = ToLimbs(1572864, MaxLimbs) => fmtOut = "1.5 MB"

\* C9: the statement as claimed, of every byte count.
C9_FormatsEveryCount ==
    fmtOut # "" => C9_Formatted(fmtIn, fmtOut) /\ C9_Examples

\* C9: the statement that holds, of the byte counts below 1024^4.
C9_FormatsBelowTiB ==
    (fmtOut # "" /\ \A j \in DOMAIN fmtIn : j > Len(C9_Units) => fmtIn[j] = 0)
        => C9_Formatted(fmtIn, fmtOut) /\ C9_Examples

\* 1152 bytes are 1.125 KB: the half rounds up.
C9_Witness == fmtIn = ToLimbs(1152, MaxLimbs) /\ fmtOut = "1.13 KB"

(***************************************************************************)
(* C10.  Whenever no upload is in progress, the files in the Store are     *)
(* exactly the names answered with 201 and not deleted since.              *)
(***************************************************************************)
\* C10: the statement as claimed.
C10_StoreAccounting ==
    (\A r \in Requests : reqs[r].phase \in {"idle", "over"})
        => StoreNames(disk) = DOMAIN ledger

====
